---------------------------- MODULE Spec2Model ----------------------------
(***************************************************************************)
(* Model of the dshot-frame crate (src/src/lib.rs): the Frame codec        *)
(* (Frame::new, Frame::command, the accessors and compute_crc) and the     *)
(* duty-cycle buffer generator (Frame::duty_cycles).  All arithmetic is    *)
(* u16.  Rust's integer overflow is not undefined: with overflow checks    *)
(* (the dev/test profile) it panics, without them (the release profile)    *)
(* it wraps modulo 2^16.  The profile is a variable fixed at Init.         *)
(***************************************************************************)
EXTENDS Integers, Naturals, Sequences, FiniteSets

VARIABLES overflow_checks, call, frame, ret

vars == <<overflow_checks, call, frame, ret>>

(***************************************************************************)
(* u16 arithmetic                                                          *)
(***************************************************************************)
U16Max == 65535

U16 == 0 .. U16Max

Wrap(x) == x % (U16Max + 1)

Pow2(n) == 2 ^ n

\* `a << n` on u16: bits shifted out of the word are dropped, never a panic.
Shl(a, n) == Wrap(a * Pow2(n))

\* `a >> n` on u16.
Shr(a, n) == a \div Pow2(n)

RECURSIVE BitXor(_, _)
BitXor(a, b) ==
    IF a = 0 THEN b
    ELSE IF b = 0 THEN a
    ELSE (((a % 2) + (b % 2)) % 2) + 2 * BitXor(a \div 2, b \div 2)

\* `x & mask` for a mask of one bit (0x10, 0x8000): the bit of x, in place.
AndBit(x, mask) == ((x \div mask) % 2) * mask

\* `x & mask` for a mask of the low bits (0x0F): x modulo mask + 1.
AndLow(x, mask) == x % (mask + 1)

RECURSIVE BitOr(_, _)
BitOr(a, b) ==
    IF a = 0 THEN b
    ELSE IF b = 0 THEN a
    ELSE (IF a % 2 = 1 \/ b % 2 = 1 THEN 1 ELSE 0) + 2 * BitOr(a \div 2, b \div 2)

\* The outcome of a u16 operation whose mathematical result is x: a panic
\* under overflow checks when x leaves 0..65535, the wrapped value otherwise.
Panics(x, oc) == oc /\ (x < 0 \/ x > U16Max)

(***************************************************************************)
(* enum Command: the named commands and their discriminants                *)
(***************************************************************************)
Command ==
    [ MotorStop |-> 0, Beep1 |-> 1, Beep2 |-> 2, Beep3 |-> 3, Beep4 |-> 4,
      Beep5 |-> 5, ESCInfo |-> 6, SpinDirection1 |-> 7, SpinDirection2 |-> 8,
      ThreeDModeOn |-> 9, ThreeDModeOff |-> 10, SettingsRequest |-> 11,
      SettingsSave |-> 12, ExtendedTelemetryEnable |-> 13,
      ExtendedTelemetryDisable |-> 14,
      SpinDirectionNormal |-> 20, SpinDirectonReversed |-> 21,
      Led0On |-> 22, Led1On |-> 23, Led2On |-> 24, Led3On |-> 25,
      Led0Off |-> 26, Led1Off |-> 27, Led2Off |-> 28, Led3Off |-> 29,
      AudioStreamModeToggle |-> 30, SilentModeToggle |-> 31,
      SignalLineTelemetryEnable |-> 32, SignalLineTelemetryDisable |-> 33,
      SignalLineContinuousERPMTelemetry |-> 34,
      SignalLineContinuousERPMPeriodTelemetry |-> 35,
      SignalLineTemperatureTelemetry |-> 42, SignalLineVoltageTelemetry |-> 43,
      SignalLineCurrentTelemetry |-> 44, SignalLineConsumptionTelemetry |-> 45,
      SignalLineERPMTelemetry |-> 46, SignalLineERPMPeriodTelemetry |-> 47 ]

Commands == DOMAIN Command

(***************************************************************************)
(* struct Frame { inner: u16 } and the values a call can produce           *)
(***************************************************************************)
Some(w) == [tag |-> "Some", inner |-> w]

None == [tag |-> "None", inner |-> 0]

Panic == [tag |-> "Panic", inner |-> 0]

NoFrame == [tag |-> "NoFrame", inner |-> 0]

NoCall == [op |-> "none", speed |-> 0, command |-> "MotorStop", request_telemetry |-> FALSE]

NoRet == [op |-> "none", tag |-> "Ok", val |-> 0, max_duty_cycle |-> 0]

Ok(op, v) == [op |-> op, tag |-> "Ok", val |-> v, max_duty_cycle |-> 0]

Panicked(op) == [op |-> op, tag |-> "Panic", val |-> 0, max_duty_cycle |-> 0]

(***************************************************************************)
(* Frame::compute_crc                                                      *)
(***************************************************************************)
CRC_MASK == 15

\* Variant: the `^ (value >> 8)` term left out.
CrcOf_DropHighNibble(value) == AndLow(BitXor(value, Shr(value, 4)), CRC_MASK)

\* line 99: (value ^ (value >> 4) ^ (value >> 8)) & 0x0F
CrcOf(value) == AndLow(BitXor(BitXor(value, Shr(value, 4)), Shr(value, 8)), CRC_MASK)

\* Variant: the checksum taken over inner >> 5 (the telemetry bit left out).
compute_crc_Shift5(w) == BitOr(w, CrcOf(Shr(w, 5)))

\* lines 97-101: value = inner >> 4; inner |= crc
compute_crc(w) == BitOr(w, CrcOf(Shr(w, 4)))

(***************************************************************************)
(* Frame::new and Frame::command                                           *)
(***************************************************************************)
SPEED_LIMIT == 2000

THROTTLE_OFFSET == 48

TELEMETRY_BIT == 16

set_telemetry(w, request_telemetry) ==
    IF request_telemetry THEN BitOr(w, TELEMETRY_BIT) ELSE w

\* The body of Frame::new after the range check (lines 58-66).
encode(speed, request_telemetry, oc) ==
    LET sum == speed + THROTTLE_OFFSET
    IN  IF Panics(sum, oc) THEN Panic
        ELSE Some(compute_crc(set_telemetry(Shl(Wrap(sum), 5), request_telemetry)))

\* Variant: the range check written `speed > 2000`.
Frame_new_OffByOne(speed, request_telemetry, oc) ==
    IF speed > SPEED_LIMIT THEN None
    ELSE encode(speed, request_telemetry, oc)

\* Variant: the + 48 offset left out.
Frame_new_NoOffset(speed, request_telemetry, oc) ==
    IF speed >= SPEED_LIMIT THEN None
    ELSE Some(compute_crc(set_telemetry(Shl(speed, 5), request_telemetry)))

\* Variant: the telemetry flag ORed in as 0x20.
Frame_new_TelemetryBit5(speed, request_telemetry, oc) ==
    IF speed >= SPEED_LIMIT THEN None
    ELSE Some(compute_crc(
            IF request_telemetry
            THEN BitOr(Shl(speed + THROTTLE_OFFSET, 5), 32)
            ELSE Shl(speed + THROTTLE_OFFSET, 5)))

\* lines 53-67
Frame_new(speed, request_telemetry, oc) ==
    IF speed >= SPEED_LIMIT THEN None
    ELSE encode(speed, request_telemetry, oc)

\* Variant: the command code shifted by 4.
Frame_command_Shift4(command, request_telemetry) ==
    Some(compute_crc(set_telemetry(Shl(Command[command], 4), request_telemetry)))

\* lines 70-79
Frame_command(command, request_telemetry) ==
    Some(compute_crc(set_telemetry(Shl(Command[command], 5), request_telemetry)))

(***************************************************************************)
(* The accessors                                                           *)
(***************************************************************************)
\* lines 82-84: (self.inner >> 5) - 48
speed(w, oc) ==
    LET diff == Shr(w, 5) - THROTTLE_OFFSET
    IN  IF Panics(diff, oc) THEN Panicked("speed") ELSE Ok("speed", Wrap(diff))

\* lines 87-89
telemetry_enabled(w) == AndBit(w, TELEMETRY_BIT) # 0

\* lines 92-94
crc(w) == AndLow(w, CRC_MASK)

\* lines 104-106
inner(w) == w

(***************************************************************************)
(* Frame::duty_cycles                                                      *)
(***************************************************************************)
BUFFER_LEN == 17

MSB_MASK == 32768

\* Variant: the loop tests bit 0 and shifts right (least significant bit first).
RECURSIVE duty_loop_LsbFirst(_, _, _, _)
duty_loop_LsbFirst(rv, value, i, zero) ==
    IF i > BUFFER_LEN THEN rv
    ELSE duty_loop_LsbFirst(
            IF AndBit(value, 1) = 0 THEN [rv EXCEPT ![i] = zero] ELSE rv,
            Shr(value, 1), i + 1, zero)

\* lines 115-121: one pass of `for item in rv.iter_mut()` from element i on.
RECURSIVE duty_loop(_, _, _, _)
duty_loop(rv, value, i, zero) ==
    IF i > BUFFER_LEN THEN rv
    ELSE duty_loop(
            IF AndBit(value, MSB_MASK) = 0 THEN [rv EXCEPT ![i] = zero] ELSE rv,
            Shl(value, 1), i + 1, zero)

\* lines 112-124.  max_duty_cycle * 3 is a u16 product: it panics under
\* overflow checks and wraps without them.
duty_cycles(w, max_duty_cycle, oc) ==
    LET product == max_duty_cycle * 3
        one     == Wrap(product) \div 4
        zero    == Wrap(product) \div 8
        rv      == duty_loop([i \in 1 .. BUFFER_LEN |-> one], w, 1, zero)
    IN  IF Panics(product, oc) THEN Panicked("duty_cycles")
        ELSE Ok("duty_cycles", [rv EXCEPT ![BUFFER_LEN] = 0])

(***************************************************************************)
(* Inputs                                                                  *)
(***************************************************************************)
\* max_duty_cycle values tried: every small one, the test's, and those
\* around the points where max_duty_cycle * 3 crosses a multiple of 2^16.
MaxSmallDuty == 9

DutyInputs == (0 .. MaxSmallDuty) \cup {100, 21845, 21846, 43690, 43691, U16Max}

(***************************************************************************)
(* The state machine                                                       *)
(***************************************************************************)
Init ==
    /\ overflow_checks \in BOOLEAN
    /\ call = NoCall
    /\ frame = NoFrame
    /\ ret = NoRet

New ==
    /\ frame.tag = "NoFrame"
    /\ \E s \in U16, t \in BOOLEAN :
          /\ call' = [op |-> "new", speed |-> s, command |-> "MotorStop",
                      request_telemetry |-> t]
          /\ frame' = Frame_new(s, t, overflow_checks)
    /\ ret' = NoRet
    /\ UNCHANGED overflow_checks

CommandCall ==
    /\ frame.tag = "NoFrame"
    /\ \E c \in Commands, t \in BOOLEAN :
          /\ call' = [op |-> "command", speed |-> 0, command |-> c,
                      request_telemetry |-> t]
          /\ frame' = Frame_command(c, t)
    /\ ret' = NoRet
    /\ UNCHANGED overflow_checks

\* The accessors take &self and leave the frame as it is, so what one returns
\* does not depend on the calls before it: each frame is observed once.
Speed ==
    /\ frame.tag = "Some"
    /\ ret = NoRet
    /\ ret' = speed(frame.inner, overflow_checks)
    /\ UNCHANGED <<overflow_checks, call, frame>>

TelemetryEnabled ==
    /\ frame.tag = "Some"
    /\ ret = NoRet
    /\ ret' = Ok("telemetry_enabled", telemetry_enabled(frame.inner))
    /\ UNCHANGED <<overflow_checks, call, frame>>

Crc ==
    /\ frame.tag = "Some"
    /\ ret = NoRet
    /\ ret' = Ok("crc", crc(frame.inner))
    /\ UNCHANGED <<overflow_checks, call, frame>>

Inner ==
    /\ frame.tag = "Some"
    /\ ret = NoRet
    /\ ret' = Ok("inner", inner(frame.inner))
    /\ UNCHANGED <<overflow_checks, call, frame>>

DutyCycles ==
    /\ frame.tag = "Some"
    /\ ret = NoRet
    /\ \E m \in DutyInputs :
          ret' = [duty_cycles(frame.inner, m, overflow_checks)
                    EXCEPT !.max_duty_cycle = m]
    /\ UNCHANGED <<overflow_checks, call, frame>>

\* The frame (or the None) goes out of scope; the next one is built fresh.
Drop ==
    /\ frame.tag # "NoFrame"
    /\ call' = NoCall
    /\ frame' = NoFrame
    /\ ret' = NoRet
    /\ UNCHANGED overflow_checks

Next ==
    \/ New
    \/ CommandCall
    \/ Speed
    \/ TelemetryEnabled
    \/ Crc
    \/ Inner
    \/ DutyCycles
    \/ Drop

Spec == Init /\ [][Next]_vars

(***************************************************************************)
(* The properties.  The numbers in them are those of the statements, not   *)
(* the model's definitions.                                                *)
(***************************************************************************)
\* The checksum as stated: (v XOR (v >> 4) XOR (v >> 8)) AND 0x0F.
StatedChecksum(v) == BitXor(BitXor(v, v \div 16), v \div 256) % 16

\* Bit k of the word w.
BitAt(w, k) == (w \div (2 ^ k)) % 2

\* The value field a call asks for: speed + 48, or the command's code.
Payload ==
    IF call.op = "new" THEN call.speed + 48 ELSE Command[call.command]

\* C1: for every speed t in 0..1999 and either telemetry flag,
\* Frame::new(t, tel) returns a frame whose speed() is t and whose
\* telemetry_enabled() is tel.
C1_RoundTrip ==
    (call.op = "new" /\ call.speed < 2000) =>
        /\ frame.tag = "Some"
        /\ ret.op = "speed" => (ret.tag = "Ok" /\ ret.val = call.speed)
        /\ ret.op = "telemetry_enabled" => ret.val = call.request_telemetry

C1_Witness ==
    /\ call.op = "new" /\ call.speed = 1999 /\ call.request_telemetry
    /\ ret.op = "speed" /\ ret.tag = "Ok" /\ ret.val = 1999

\* C2: over all of 0..65535, Frame::new returns None exactly when
\* speed >= 2000 (1999 accepted, 2000 rejected), and a rejected speed never
\* reaches the arithmetic: no call to Frame::new panics.
C2_RangeCheck ==
    call.op = "new" =>
        /\ frame.tag \in {"Some", "None"}
        /\ (frame.tag = "None") <=> (call.speed >= 2000)

C2_Witness ==
    /\ overflow_checks
    /\ call.op = "new" /\ call.speed = 65535
    /\ frame.tag = "None"

\* C3: for every frame of Frame::new or Frame::command, crc() is
\* (v XOR (v >> 4) XOR (v >> 8)) AND 0x0F with v = inner >> 4; speed 998
\* gives 0x06 without telemetry and 0x07 with it.
C3_Checksum ==
    ret.op = "crc" =>
        /\ ret.val = StatedChecksum(frame.inner \div 16)
        /\ (call.op = "new" /\ call.speed = 998) =>
              ret.val = (IF call.request_telemetry THEN 7 ELSE 6)

C3_Witness ==
    /\ call.op = "new" /\ call.speed = 998 /\ call.request_telemetry
    /\ ret.op = "crc" /\ ret.val = 7

\* C4: inner() is (payload << 5) | (tel ? 0x10 : 0) | checksum: bits 15..5
\* are the payload (speed + 48 or the command's code), bit 4 the telemetry
\* flag, bits 3..0 the checksum, the three fields disjoint.
C4_WireLayout ==
    ret.op = "inner" =>
        LET w == ret.val
            tel == IF call.request_telemetry THEN 1 ELSE 0
        IN  /\ w \div 32 = Payload
            /\ (w \div 16) % 2 = tel
            /\ w % 16 = StatedChecksum(w \div 16)
            /\ w = Payload * 32 + tel * 16 + StatedChecksum(Payload * 2 + tel)

C4_Witness ==
    /\ call.op = "command" /\ call.command = "SignalLineERPMPeriodTelemetry"
    /\ call.request_telemetry
    /\ ret.op = "inner" /\ ret.val = 1530

\* C5: for max_duty <= 21845, element i (0..15) of duty_cycles(max_duty) is
\* floor(3 * max_duty / 4) when bit 15 - i of inner() is 1 and
\* floor(3 * max_duty / 8) when it is 0; MotorStop without telemetry at
\* max_duty 100 gives sixteen 37s.
C5_MsbFirst ==
    (ret.op = "duty_cycles" /\ ret.max_duty_cycle <= 21845) =>
        /\ ret.tag = "Ok"
        /\ \A i \in 0 .. 15 :
              ret.val[i + 1] =
                  IF BitAt(frame.inner, 15 - i) = 1
                  THEN (3 * ret.max_duty_cycle) \div 4
                  ELSE (3 * ret.max_duty_cycle) \div 8
        /\ (call.op = "command" /\ call.command = "MotorStop"
                /\ ~call.request_telemetry /\ ret.max_duty_cycle = 100) =>
              \A i \in 1 .. 16 : ret.val[i] = 37

C5_Witness ==
    /\ call.op = "new" /\ call.speed = 999 /\ ~call.request_telemetry
    /\ ret.op = "duty_cycles" /\ ret.max_duty_cycle = 100 /\ ret.tag = "Ok"
    /\ ret.val = <<75, 37, 37, 37, 37, 37, 75, 37, 75, 75, 75, 37, 37, 75, 37, 37, 0>>

\* C6: for every frame and every max_duty, duty_cycles(max_duty) returns 17
\* elements, the last one 0.
C6_AsClaimed ==
    ret.op = "duty_cycles" =>
        /\ ret.tag = "Ok"
        /\ Len(ret.val) = 17
        /\ ret.val[17] = 0

\* C7: for every frame and every max_duty in 0..65535, max_duty * 3 / 4 and
\* max_duty * 3 / 8 are computed without overflow (no panic, no wraparound),
\* so every duty value is the true quotient and at most max_duty.
C7_AsClaimed ==
    ret.op = "duty_cycles" =>
        /\ ret.tag = "Ok"
        /\ \A i \in 1 .. 16 :
              /\ ret.val[i] \in { (3 * ret.max_duty_cycle) \div 4,
                                  (3 * ret.max_duty_cycle) \div 8 }
              /\ ret.val[i] <= ret.max_duty_cycle

\* C8: speed() returns a value in 0..1999 for every frame of the public
\* constructors, those of Frame::command included: (inner >> 5) - 48 never
\* underflows.
C8_AsClaimed ==
    ret.op = "speed" => (ret.tag = "Ok" /\ ret.val \in 0 .. 1999)

\* C9: the value field (inner >> 5) of a command frame is the command's code,
\* in 0..47; that of a throttle frame is in 48..2047; so no frame of
\* Frame::new has the raw word of a frame of Frame::command.
C9_NoCollision ==
    ret.op = "inner" =>
        /\ call.op = "command" =>
              /\ ret.val \div 32 = Command[call.command]
              /\ ret.val \div 32 \in 0 .. 47
        /\ call.op = "new" =>
              /\ ret.val \div 32 \in 48 .. 2047
              /\ \A c \in Commands, t \in BOOLEAN :
                    ret.val # Frame_command(c, t).inner

C9_Witness ==
    /\ call.op = "new" /\ call.speed = 0
    /\ ret.op = "inner" /\ ret.val \div 32 = 48

\* C10: flipping any one bit k (0..15) of a constructed frame's raw word
\* gives a word whose low four bits are not the checksum of its high twelve.
C10_SingleBitDetected ==
    ret.op = "inner" =>
        \A k \in 0 .. 15 :
            LET w2 == BitXor(ret.val, 2 ^ k)
            IN  w2 % 16 # StatedChecksum(w2 \div 16)

C10_Witness ==
    /\ ret.op = "inner" /\ call.op = "new" /\ call.speed = 1000
    /\ \A k \in 0 .. 15 : BitXor(ret.val, 2 ^ k) # ret.val
    /\ ret.val % 16 = StatedChecksum(ret.val \div 16)

=============================================================================
